---- MODULE Spec2Model ----
(***************************************************************************)
(* Model of the preference-aware retrieval / reranking / augmentation      *)
(* pipeline of the real-estate listing assistant:                          *)
(*   llm_pipeline/utils.py : safe_int, safe_float, fallback_int,           *)
(*                           augment_listing_with_preferences              *)
(*   app.py                : run_ui (input filter), parse_preferences,     *)
(*                           rerank_listings / score_listing               *)
(*                           search_listings (one search request)          *)
(*                                                                         *)
(* Python values are tagged records; t names the type and one field holds  *)
(* the value (the others keep a fixed filler):                             *)
(*   None  -> t = "none"                                                   *)
(*   str   -> t = "str",   s = <<c1, ..., cn>>  (one-character strings)    *)
(*   int   -> t = "int",   n = the integer                                 *)
(*   float -> t = "float", q = <<num, den>>, den > 0 in lowest terms;      *)
(*            <<1,0>> is inf, <<-1,0>> is -inf, <<0,0>> is nan             *)
(*   list  -> t = "list",  l = <<s1, ..., sn>>  (each si the character     *)
(*            sequence of a str)                                           *)
(* Finite floats are modelled as exact rationals.                          *)
(***************************************************************************)
EXTENDS Integers, Sequences, FiniteSets, TLC

VARIABLES
    \* Numeric Normalizer (utils.py safe_int / safe_float / fallback_int)
    nn_val,        \* the value handed to the parser
    nn_default,    \* the caller's default (None when omitted)
    nn_fn,         \* which function ran: "none" before the call
    nn_res,        \* the outcome of the call
    \* Preference Normalizer (app.py run_ui filter + parse_preferences)
    raw_inputs,    \* the form's raw mapping
    user_inputs_dict, \* the filtered mapping (UserPreferences)
    user_pref,     \* the list of sentences of the QueryString
    pn_pc,         \* "form" -> "submitted" -> "parsed"
    \* Reranker (app.py rerank_listings)
    listings,      \* the candidate sequence
    user_inputs,   \* the preference mapping handed to rerank_listings
    ranked,        \* the returned list of (score, doc)
    scored,        \* the list of (score, doc) before sorting
    rr_pc,         \* "build" -> "ready" -> "done"
    \* Augmentation Service (utils.py augment_listing_with_preferences)
    listing,       \* the listing record
    llm,           \* what llm.predict will do
    aug_res,       \* the outcome of the call
    aug_pc,        \* "ready" -> "done"
    \* One search request (app.py search_listings)
    sr_pc,         \* the statement the request is at
    sr_i,          \* the loop's enumerate index
    sr_log,        \* the calls made so far, in order
    screen         \* what the Streamlit page shows, in order

vars == <<nn_val, nn_default, nn_fn, nn_res,
          raw_inputs, user_inputs_dict, user_pref, pn_pc,
          listings, user_inputs, ranked, scored, rr_pc,
          listing, llm, aug_res, aug_pc,
          sr_pc, sr_i, sr_log, screen>>

nnVars == <<nn_val, nn_default, nn_fn, nn_res>>
pnVars == <<raw_inputs, user_inputs_dict, user_pref, pn_pc>>
rrVars == <<listings, user_inputs, ranked, scored, rr_pc>>
augVars == <<listing, llm, aug_res, aug_pc>>
srVars == <<sr_pc, sr_i, sr_log, screen>>

(***************************************************************************)
(* Python values                                                           *)
(***************************************************************************)
PyNone == [t |-> "none", n |-> 0, q |-> <<0, 1>>, s |-> <<>>, l |-> <<>>]
PyStr(s) == [PyNone EXCEPT !.t = "str", !.s = s]
PyIntV(n) == [PyNone EXCEPT !.t = "int", !.n = n]
PyFloatV(q) == [PyNone EXCEPT !.t = "float", !.q = q]
PyList(l) == [PyNone EXCEPT !.t = "list", !.l = l]

Inf == <<1, 0>>
NaN == <<0, 0>>

\* Outcome of a call: a returned value or a raised exception.
Return(x) == [kind |-> "return", val |-> x, exc |-> "", warned |-> FALSE]
ReturnWarned(x) == [kind |-> "return", val |-> x, exc |-> "", warned |-> TRUE]
Raise(e) == [kind |-> "raise", val |-> PyNone, exc |-> e, warned |-> FALSE]
NoCall == [kind |-> "none", val |-> PyNone, exc |-> "", warned |-> FALSE]

\* Python truthiness: None, "", [], 0 and 0.0 are falsy (nan is truthy).
Truthy(x) ==
    CASE x.t = "none" -> FALSE
      [] x.t = "str" -> x.s # <<>>
      [] x.t = "list" -> x.l # <<>>
      [] x.t = "int" -> x.n # 0
      [] x.t = "float" -> ~(x.q[1] = 0 /\ x.q[2] # 0)

\* what iterating over x yields: the items of a list, the characters of a str
Items(x) == IF x.t = "list" THEN x.l ELSE [i \in 1..Len(x.s) |-> <<x.s[i]>>]

Range(s) == {s[i] : i \in 1..Len(s)}

(***************************************************************************)
(* Exact rationals <<num, den>>, den > 0, lowest terms                     *)
(***************************************************************************)
Abs(n) == IF n < 0 THEN -n ELSE n

RECURSIVE GCD(_, _)
GCD(a, b) == IF b = 0 THEN a ELSE GCD(b, a % b)

Norm(n, d) ==
    LET g == GCD(Abs(n), Abs(d))
        s == IF d < 0 THEN -1 ELSE 1
    IN <<s * (n \div g), s * (d \div g)>>

RInt(n) == <<n, 1>>
RAdd(p, q) == Norm(p[1] * q[2] + q[1] * p[2], p[2] * q[2])
RSub(p, q) == Norm(p[1] * q[2] - q[1] * p[2], p[2] * q[2])
RAbs(p) == <<Abs(p[1]), p[2]>>
\* p / q for q # 0
RDiv(p, q) == Norm(p[1] * q[2], p[2] * q[1])
RLt(p, q) == p[1] * q[2] < q[1] * p[2]
RLe(p, q) == p[1] * q[2] <= q[1] * p[2]
\* Python max(a, b): b only when b > a
RMax(p, q) == IF RLt(p, q) THEN q ELSE p
IsFinite(q) == q[2] # 0

(***************************************************************************)
(* Characters and strings                                                  *)
(***************************************************************************)
Digits == <<"0", "1", "2", "3", "4", "5", "6", "7", "8", "9">>
IsDigit(c) == \E i \in 1..10 : Digits[i] = c
DigitVal(c) == (CHOOSE i \in 1..10 : Digits[i] = c) - 1

UpperS == <<"A", "B", "C", "D", "E", "F", "G", "H", "I", "J", "K", "L", "M",
            "N", "O", "P", "Q", "R", "S", "T", "U", "V", "W", "X", "Y", "Z">>
LowerS == <<"a", "b", "c", "d", "e", "f", "g", "h", "i", "j", "k", "l", "m",
            "n", "o", "p", "q", "r", "s", "t", "u", "v", "w", "x", "y", "z">>
LowerChar(c) ==
    IF \E i \in 1..26 : UpperS[i] = c
    THEN LowerS[CHOOSE i \in 1..26 : UpperS[i] = c]
    ELSE c
\* str.lower()
Lower(s) == [i \in 1..Len(s) |-> LowerChar(s[i])]

RECURSIVE ParseNat(_)
ParseNat(s) ==
    IF s = <<>> THEN 0
    ELSE ParseNat(SubSeq(s, 1, Len(s) - 1)) * 10 + DigitVal(s[Len(s)])

RECURSIVE NatToStr(_)
NatToStr(n) ==
    IF n < 10 THEN <<Digits[n + 1]>>
    ELSE NatToStr(n \div 10) \o <<Digits[(n % 10) + 1]>>

IntToStr(n) == IF n < 0 THEN <<"-">> \o NatToStr(-n) ELSE NatToStr(n)

RECURSIVE Pow10(_)
Pow10(k) == IF k = 0 THEN 1 ELSE 10 * Pow10(k - 1)

AllDigits(s) == \A i \in 1..Len(s) : IsDigit(s[i])

\* str.strip(): leading and trailing whitespace removed
IsSpace(c) == c \in {" ", "\n", "\t", "\r"}
RECURSIVE LStrip(_)
LStrip(s) == IF s # <<>> /\ IsSpace(s[1]) THEN LStrip(Tail(s)) ELSE s
RECURSIVE RStrip(_)
RStrip(s) ==
    IF s # <<>> /\ IsSpace(s[Len(s)]) THEN RStrip(SubSeq(s, 1, Len(s) - 1)) ELSE s
Strip(s) == RStrip(LStrip(s))

\* needle in haystack, for two strings
IsSubstring(needle, hay) ==
    \E i \in 0..(Len(hay) - Len(needle)) :
        SubSeq(hay, i + 1, i + Len(needle)) = needle

\* sep.join(parts) for a sequence of strings
RECURSIVE Join(_, _)
Join(sep, parts) ==
    IF parts = <<>> THEN <<>>
    ELSE IF Len(parts) = 1 THEN parts[1]
    ELSE parts[1] \o sep \o Join(sep, Tail(parts))

(***************************************************************************)
(* Python's int(), float() and str() on the modelled values                *)
(***************************************************************************)
HasSign(s) == s # <<>> /\ s[1] \in {"+", "-"}
Unsigned(s) == IF HasSign(s) THEN Tail(s) ELSE s
SignOf(s) == IF s # <<>> /\ s[1] = "-" THEN -1 ELSE 1

\* int(x): a str is stripped, may carry a sign, and must be all digits;
\* a float is truncated towards zero, inf and nan cannot be converted.
PyInt(x) ==
    CASE x.t = "int" -> Return(x)
      [] x.t = "float" ->
            IF x.q[2] = 0
            THEN (IF x.q[1] = 0 THEN Raise("ValueError") ELSE Raise("OverflowError"))
            ELSE Return(PyIntV((IF x.q[1] < 0 THEN -1 ELSE 1) * (Abs(x.q[1]) \div x.q[2])))
      [] x.t = "str" ->
            LET s == Strip(x.s)
                body == Unsigned(s)
            IN IF body # <<>> /\ AllDigits(body)
               THEN Return(PyIntV(SignOf(s) * ParseNat(body)))
               ELSE Raise("ValueError")
      [] OTHER -> Raise("TypeError")

\* The digits of a decimal literal "ddd.ddd" as a rational.
DotCount(s) == Cardinality({i \in 1..Len(s) : s[i] = "."})
IsDecimal(s) ==
    /\ \A i \in 1..Len(s) : IsDigit(s[i]) \/ s[i] = "."
    /\ DotCount(s) <= 1
    /\ \E i \in 1..Len(s) : IsDigit(s[i])
DecimalValue(s) ==
    LET dot == IF DotCount(s) = 0 THEN Len(s) + 1
               ELSE CHOOSE i \in 1..Len(s) : s[i] = "."
        frac == Len(s) - dot
        digs == SelectSeq(s, IsDigit)
    IN Norm(ParseNat(digs), Pow10(IF frac < 0 THEN 0 ELSE frac))

\* float(s) for a str: stripped, optional sign, then a decimal literal,
\* "inf"/"infinity" or "nan" (exponent and underscore forms are outside the
\* modelled alphabet).
PyFloatStr(str) ==
    LET s == Strip(str)
        body == Unsigned(s)
        sg == SignOf(s)
    IN CASE Lower(body) \in {<<"i", "n", "f">>,
                             <<"i", "n", "f", "i", "n", "i", "t", "y">>} ->
                Return(PyFloatV(<<sg, 0>>))
         [] Lower(body) = <<"n", "a", "n">> -> Return(PyFloatV(NaN))
         [] IsDecimal(body) ->
                LET q == DecimalValue(body)
                IN Return(PyFloatV(<<sg * q[1], q[2]>>))
         [] OTHER -> Raise("ValueError")

\* float(x)
PyFloat(x) ==
    CASE x.t = "float" -> Return(x)
      [] x.t = "int" -> Return(PyFloatV(<<x.n, 1>>))
      [] x.t = "str" -> PyFloatStr(x.s)
      [] OTHER -> Raise("TypeError")

\* repr of a float: inf, nan, or a decimal with one fractional digit (the
\* modelled finite floats are multiples of 1/2).
FloatRepr(q) ==
    CASE q[2] = 0 /\ q[1] = 0 -> <<"n", "a", "n">>
      [] q[2] = 0 /\ q[1] > 0 -> <<"i", "n", "f">>
      [] q[2] = 0 /\ q[1] < 0 -> <<"-", "i", "n", "f">>
      [] OTHER ->
            (IF q[1] < 0 THEN <<"-">> ELSE <<>>)
            \o NatToStr(Abs(q[1]) \div q[2]) \o <<".">>
            \o NatToStr(((Abs(q[1]) * 10) \div q[2]) % 10)

\* str(x); a list prints as ['a', 'b']
StrOf(x) ==
    CASE x.t = "str" -> x.s
      [] x.t = "int" -> IntToStr(x.n)
      [] x.t = "float" -> FloatRepr(x.q)
      [] x.t = "none" -> <<"N", "o", "n", "e">>
      [] x.t = "list" ->
            <<"[">> \o Join(<<",", " ">>,
                            [i \in 1..Len(x.l) |-> <<"'">> \o x.l[i] \o <<"'">>])
            \o <<"]">>

\* re.sub(r"[^\d.]", "", s): only digits and dots are kept
StripNonNumeric(s) == SelectSeq(s, LAMBDA c : IsDigit(c) \/ c = ".")

(***************************************************************************)
(* Numeric Normalizer                                                      *)
(***************************************************************************)
Omitted == [PyNone EXCEPT !.t = "omitted"]
SafeIntDefault == 1
SafeFloatDefault == 1000
RandIntLo == 1
RandIntHi == 4

\* safe_int(val, default=1): except (ValueError, TypeError) only
safe_int(val, default) ==
    LET r == PyInt(val)
        d == IF default = Omitted THEN PyIntV(SafeIntDefault) ELSE default
    IN IF r.kind = "return" THEN r
       ELSE IF r.exc \in {"ValueError", "TypeError"} THEN ReturnWarned(d)
       ELSE r

\* safe_float(val, default=1000.0): except Exception
safe_float(val, default) ==
    LET r == PyFloatStr(StripNonNumeric(StrOf(val)))
        d == IF default = Omitted THEN PyFloatV(<<SafeFloatDefault, 1>>) ELSE default
    IN IF r.kind = "return" THEN r ELSE ReturnWarned(d)

\* fallback_int(val, default=None): a None default becomes randint(1, 4)
fallback_int(val, default, rnd) ==
    safe_int(val, IF default \in {Omitted, PyNone} THEN PyIntV(rnd) ELSE default)

S(str) == PyStr(str)
NNValues ==
    { S(<<"1", "2">>), S(<<"-", "3">>), S(<<" ", "7", " ">>), S(<<"1", ".", "5">>),
      S(<<"a", "b", "c">>), S(<<>>), S(<<"1", ".", "2", ".", "3">>),
      S(<<"$", "1", ",", "2", "0", "0", ".", "5", "0">>), S(<<"1", "e", "3">>),
      S(<<".">>), S(<<"i", "n", "f">>),
      PyIntV(0), PyIntV(42), PyIntV(-7),
      PyFloatV(<<3, 2>>), PyFloatV(<<-5, 2>>), PyFloatV(<<2, 1>>),
      PyFloatV(Inf), PyFloatV(<<-1, 0>>), PyFloatV(NaN),
      PyNone, PyList(<<>>), PyList(<<<<"1">>, <<"2">>>>) }

NNDefaults == { Omitted, PyNone, PyIntV(0), PyIntV(3), PyFloatV(<<5, 2>>) }

NNIdle ==
    /\ nn_val = PyNone
    /\ nn_default = Omitted
    /\ nn_fn = "none"
    /\ nn_res = NoCall

CallSafeInt ==
    /\ nn_fn = "none"
    /\ nn_fn' = "safe_int"
    /\ nn_res' = safe_int(nn_val, nn_default)
    /\ UNCHANGED <<nn_val, nn_default, pnVars, rrVars, augVars, srVars>>

CallSafeFloat ==
    /\ nn_fn = "none"
    /\ nn_fn' = "safe_float"
    /\ nn_res' = safe_float(nn_val, nn_default)
    /\ UNCHANGED <<nn_val, nn_default, pnVars, rrVars, augVars, srVars>>

CallFallbackInt ==
    /\ nn_fn = "none"
    /\ \E rnd \in RandIntLo..RandIntHi :
          nn_res' = fallback_int(nn_val, nn_default, rnd)
    /\ nn_fn' = "fallback_int"
    /\ UNCHANGED <<nn_val, nn_default, pnVars, rrVars, augVars, srVars>>

(***************************************************************************)
(* Preference Normalizer                                                   *)
(* A dict is a function from its keys; text is a sequence of pieces, each  *)
(* piece a template literal or one character of a value.                   *)
(***************************************************************************)
FieldOrder == <<"square_feet", "city", "budget", "features", "amenities",
                "neighborhoods">>
Fields == Range(FieldOrder)

\* dict.get(key): None when the key is missing
Get(d, k) == IF k \in DOMAIN d THEN d[k] ELSE PyNone

\* x in [None, "", []]  (list membership is by ==)
InEmptyList(x) == x = PyNone \/ x = PyStr(<<>>) \/ x = PyList(<<>>)

\* a filter that forgets the empty string
FilterInputsKeepEmptyStr(raw) ==
    [k \in {f \in DOMAIN raw : ~(raw[f] = PyNone \/ raw[f] = PyList(<<>>))} |-> raw[k]]

\* {k: v for k, v in raw_inputs.items() if v not in [None, "", []]}
FilterInputs(raw) ==
    [k \in {f \in DOMAIN raw : ~InEmptyList(raw[f])} |-> raw[k]]

\* ', '.join(x): x's items when x is a list, its characters when a str
JoinComma(x) == Join(<<", ">>, Items(x))

SentenceHead(f) ==
    CASE f = "square_feet" -> "I want a house of around "
      [] f = "city" -> "My preferred city is "
      [] f = "budget" -> "My budget is around "
      [] f = "features" -> "I'm looking for features like: "
      [] f = "amenities" -> "I want amenities like: "
      [] f = "neighborhoods" -> "My preferred neighborhoods are: "

SentenceTail(f) == IF f = "square_feet" THEN " sq ft." ELSE "."

\* the f-string of one field
Sentence(f, x) ==
    <<SentenceHead(f)>>
    \o (IF f \in {"amenities", "neighborhoods"} THEN JoinComma(x) ELSE StrOf(x))
    \o <<SentenceTail(f)>>

\* parse_preferences: one sentence per truthy field, in field order,
\* joined with newlines
RECURSIVE PromptParts(_, _)
PromptParts(d, i) ==
    IF i > Len(FieldOrder) THEN <<>>
    ELSE (IF Truthy(Get(d, FieldOrder[i]))
          THEN <<Sentence(FieldOrder[i], d[FieldOrder[i]])>>
          ELSE <<>>)
         \o PromptParts(d, i + 1)

parse_preferences(d) == Join(<<"\n">>, PromptParts(d, 1))

\* What the form's widgets can hold: text inputs give a str, the select box
\* one of CITIES or None; the filter also names the empty list.
Berlin == <<"B", "e", "r", "l", "i", "n">>
Munich == <<"M", "u", "n", "i", "c", "h">>
Pool == <<"p", "o", "o", "l">>
Gym == <<"g", "y", "m">>
Garden == <<"g", "a", "r", "d", "e", "n">>

RawChoices(f) ==
    CASE f = "square_feet" -> {S(<<>>), S(<<"1", "2", "0", "0">>), S(<<"0">>)}
      [] f = "city" -> {PyNone, S(Berlin), S(Munich)}
      [] f = "budget" -> {S(<<>>), S(<<"4", "5", "0">>), S(<<" ">>)}
      [] f = "features" -> {S(<<>>), S(<<"3", " ", "b", "e", "d">>)}
      [] f = "amenities" -> {S(<<>>), S(Pool), PyList(<<>>), PyList(<<Pool, Gym>>)}
      [] f = "neighborhoods" -> {S(<<>>), PyList(<<>>), PyList(<<<<"M", "i", "t", "t", "e">>>>)}

PNIdle ==
    /\ raw_inputs = [f \in Fields |-> PyNone]
    /\ user_inputs_dict = <<>>
    /\ user_pref = <<>>
    /\ pn_pc = "form"

\* run_ui's submitted branch up to search_listings' first statement
Normalize ==
    /\ pn_pc = "form"
    /\ user_inputs_dict' = FilterInputs(raw_inputs)
    /\ user_pref' = parse_preferences(FilterInputs(raw_inputs))
    /\ pn_pc' = "parsed"
    /\ UNCHANGED <<raw_inputs, nnVars, rrVars, augVars, srVars>>

(***************************************************************************)
(* Reranker: score_listing                                                 *)
(* metadata and user_inputs are dicts; metadata numbers are finite (the    *)
(* catalog's prices and sizes come out of safe_float / safe_int).          *)
(***************************************************************************)
BaseScore == 5
BudgetCap == 3
SizeCap == 2
BedroomBoost == 1
BathroomBoost == 1
TopN == 3
Half == <<1, 2>>

\* the hard skip comparing the two strings as they are, lower() forgotten
CityFilteredCaseSensitive(metadata, ui) ==
    /\ Truthy(Get(ui, "city"))
    /\ Truthy(Get(metadata, "location"))
    /\ metadata["location"].s # ui["city"].s

\* "Hard skip if not from the selected city": both values truthy and
\* different after lower()
CityFiltered(metadata, ui) ==
    /\ Truthy(Get(ui, "city"))
    /\ Truthy(Get(metadata, "location"))
    /\ Lower(metadata["location"].s) # Lower(ui["city"].s)

\* the decay with the abs() forgotten
ProximityNoAbs(cap, wantVal, haveVal) ==
    LET w == PyFloat(wantVal)
        h == PyFloat(haveVal)
    IN IF w.kind # "return" \/ h.kind # "return" THEN RInt(0)
       ELSE IF ~IsFinite(w.val.q) \/ ~IsFinite(h.val.q) THEN RInt(0)
       ELSE IF w.val.q[1] = 0 THEN RInt(0)
       ELSE RMax(RInt(0),
                 RSub(RInt(cap), RDiv(RSub(w.val.q, h.val.q), w.val.q)))

\* max(0, cap - abs(want - have) / want) inside try/except: a parse failure
\* or a division by zero is swallowed and adds nothing.  want may be inf or
\* nan (typed by the user): then diff is inf or nan, diff / want is nan, and
\* max(0, nan) is 0.
Proximity(cap, wantVal, haveVal) ==
    LET w == PyFloat(wantVal)
        h == PyFloat(haveVal)
    IN IF w.kind # "return" \/ h.kind # "return" THEN RInt(0)
       ELSE IF ~IsFinite(w.val.q) \/ ~IsFinite(h.val.q) THEN RInt(0)
       ELSE IF w.val.q[1] = 0 THEN RInt(0)
       ELSE RMax(RInt(0),
                 RSub(RInt(cap), RDiv(RAbs(RSub(w.val.q, h.val.q)), w.val.q)))

\* 2. Budget
BudgetTerm(metadata, ui) ==
    IF Truthy(Get(ui, "budget")) /\ Truthy(Get(metadata, "price"))
    THEN Proximity(BudgetCap, ui["budget"], metadata["price"])
    ELSE RInt(0)

\* 3. Square footage
SizeTerm(metadata, ui) ==
    IF Truthy(Get(ui, "square_feet")) /\ Truthy(Get(metadata, "square_feet"))
    THEN Proximity(SizeCap, ui["square_feet"], metadata["square_feet"])
    ELSE RInt(0)

\* 4. / 5. str(metadata[key]) in user_inputs["features"]
CountTerm(metadata, ui, key, boost) ==
    IF key \in DOMAIN metadata /\ Truthy(Get(ui, "features"))
       /\ IsSubstring(StrOf(metadata[key]), ui["features"].s)
    THEN RInt(boost)
    ELSE RInt(0)

\* set(x): the items of a list, the characters of a str
SetOf(x) == Range(Items(x))

\* the amenity term counting every listed amenity, repeats included
AmenityTermPerItem(metadata, ui) ==
    IF "amenities" \in DOMAIN metadata /\ Truthy(Get(ui, "amenities"))
       /\ metadata["amenities"].t = "list"
    THEN LET mine == Items(ui["amenities"])
             hits == {i \in 1..Len(mine) : mine[i] \in SetOf(metadata["amenities"])}
         IN Norm(Cardinality(hits), 2)
    ELSE RInt(0)

\* 6. Amenities: len(set(user) & set(candidate)) * 0.5, for a list only
AmenityTerm(metadata, ui) ==
    IF "amenities" \in DOMAIN metadata /\ Truthy(Get(ui, "amenities"))
       /\ metadata["amenities"].t = "list"
    THEN LET matched == SetOf(ui["amenities"]) \cap SetOf(metadata["amenities"])
         IN Norm(Cardinality(matched), 2)
    ELSE RInt(0)

\* the hard filter setting score = 0 and scoring on, instead of returning
score_listing_no_return(metadata, ui) ==
    RAdd(RAdd(RAdd(RInt(BaseScore), BudgetTerm(metadata, ui)),
              RAdd(SizeTerm(metadata, ui),
                   CountTerm(metadata, ui, "number_of_bedrooms", BedroomBoost))),
         RAdd(CountTerm(metadata, ui, "number_of_bathrooms", BathroomBoost),
              AmenityTerm(metadata, ui)))

score_listing(metadata, ui) ==
    IF CityFiltered(metadata, ui) THEN RInt(0)
    ELSE RAdd(RAdd(RAdd(RInt(BaseScore), BudgetTerm(metadata, ui)),
                   RAdd(SizeTerm(metadata, ui),
                        CountTerm(metadata, ui, "number_of_bedrooms", BedroomBoost))),
              RAdd(CountTerm(metadata, ui, "number_of_bathrooms", BathroomBoost),
                   AmenityTerm(metadata, ui)))

(***************************************************************************)
(* Reranker: rerank_listings                                               *)
(* An entry of scored/ranked is (score, doc); pos is the doc's place in    *)
(* the input and stands for the object's identity.                         *)
(***************************************************************************)
Scored(docs, ui) ==
    [i \in 1..Len(docs) |->
        [score |-> score_listing(docs[i], ui), doc |-> docs[i], pos |-> i]]

\* an insertion that puts a new entry before its equals
RECURSIVE InsertDescBeforeEquals(_, _)
InsertDescBeforeEquals(s, x) ==
    IF s = <<>> THEN <<x>>
    ELSE IF RLe(s[1].score, x.score) THEN <<x>> \o s
    ELSE <<s[1]>> \o InsertDescBeforeEquals(Tail(s), x)

\* x goes behind every entry whose score is >= its own
RECURSIVE InsertDesc(_, _)
InsertDesc(s, x) ==
    IF s = <<>> THEN <<x>>
    ELSE IF RLt(s[1].score, x.score) THEN <<x>> \o s
    ELSE <<s[1]>> \o InsertDesc(Tail(s), x)

\* sorted(scored, key=lambda x: x[0], reverse=True): stable, descending
RECURSIVE SortedDesc(_, _)
SortedDesc(s, acc) ==
    IF s = <<>> THEN acc ELSE SortedDesc(Tail(s), InsertDesc(acc, s[1]))

\* a slice that keeps one entry too many
SliceOneMore(s, n) == SubSeq(s, 1, IF Len(s) < n + 1 THEN Len(s) ELSE n + 1)

\* s[:n]
Slice(s, n) == SubSeq(s, 1, IF Len(s) < n THEN Len(s) ELSE n)

\* ranked = sorted(scored, ...); return ranked[:3]
Ranked(sc) == Slice(SortedDesc(sc, <<>>), TopN)

rerank_listings(docs, ui) == Ranked(Scored(docs, ui))

(***************************************************************************)
(* Augmentation Service                                                    *)
(***************************************************************************)
\* the last three digits of a group, zero padded
Pad3(n) == <<Digits[(n \div 100) + 1], Digits[((n \div 10) % 10) + 1], Digits[(n % 10) + 1]>>

RECURSIVE Thousands(_)
Thousands(n) ==
    IF n < 1000 THEN NatToStr(n)
    ELSE Thousands(n \div 1000) \o <<",">> \o Pad3(n % 1000)

\* format(n, ","): "450,000"
FormatComma(n) == IF n < 0 THEN <<"-">> \o Thousands(-n) ELSE Thousands(n)

\* the adjacent f-string literals of raw_augmented_description, which
\* Python concatenates into ONE string before .join is applied to it
DescriptionHead(l, preferences, price) ==
    <<"Welcome to this cozy ">> \o StrOf(Get(l, "number_of_bedrooms"))
    \o <<"-bedroom, ">> \o StrOf(Get(l, "number_of_bathrooms"))
    \o <<"-bathrooms home that could be perfect for your family in ">>
    \o StrOf(Get(l, "location"))
    \o <<"! It offers approximately ">> \o StrOf(Get(l, "square_feet"))
    \o <<" square feet of living space, priced at $">> \o FormatComma(price)
    \o <<". ">> \o StrOf(Get(l, "page_content")) \o <<" ">>
    \o StrOf(Get(l, "neighborhood_description"))
    \o <<"This fits your preference for ">> \o preferences
    \o <<" with the following amenities available:\n\n">>

\* f"- {amenity}\n" for amenity in amenities: the items of a list, the
\* characters of a str
Bullets(amenities) ==
    [i \in 1..Len(Items(amenities)) |-> <<"- ">> \o Items(amenities)[i] \o <<"\n">>]

\* raw_augmented_description = (<head> "".join(<bullets>)), that is
\* <head>.join(<bullets>); int(price) and iter(amenities) may raise
RawDescription(l, preferences) ==
    LET price == PyInt(Get(l, "price"))
        amenities == Get(l, "amenities")
    IN IF price.kind = "raise" THEN price
       ELSE IF amenities.t \notin {"list", "str"} THEN Raise("TypeError")
       ELSE Return(PyStr(Join(DescriptionHead(l, preferences, price.val.n),
                              Bullets(amenities))))

\* augment_listing_with_preferences: the description is built outside the
\* try block; llm.predict and refined.strip() are inside it
augment_listing_with_preferences(l, preferences, model) ==
    LET raw == RawDescription(l, preferences)
    IN IF raw.kind = "raise" THEN raw
       ELSE IF model.kind = "return" /\ model.val.t = "str"
            THEN Return(PyStr(Strip(model.val.s)))
            ELSE ReturnWarned(raw.val)

\* what llm.predict can do: return text, return "", return a non-string,
\* raise
LLMOutcomes ==
    { Return(S(<<" ", "Refined description.", "\n">>)), Return(S(<<>>)),
      Return(PyNone), Raise("TimeoutError"), Raise("RateLimitError") }

AugPrices ==
    { PyIntV(450000), PyIntV(950), PyFloatV(<<2469, 2>>), S(<<"9", "5", "0">>),
      S(<<"4", ".", "5">>), PyNone }
AugAmenities ==
    { PyList(<<>>), PyList(<<Pool>>), PyList(<<Pool, Gym>>),
      PyList(<<Pool, Gym, Garden>>), S(<<"a", "b">>), PyNone }
AugPreferences == { <<>>, <<"My budget is around ", "4", "5", "0", ".">> }

\* a listing record; a None choice leaves the key out
AugListings ==
    { FilterInputs([location |-> loc, number_of_bedrooms |-> beds,
                    number_of_bathrooms |-> PyIntV(2),
                    square_feet |-> PyIntV(1200), price |-> pr,
                    amenities |-> am, title |-> S(<<"Cozy Urban Flat">>)]) :
        loc \in {S(Berlin), PyNone}, beds \in {PyIntV(3), PyNone},
        pr \in AugPrices, am \in AugAmenities \ {PyList(<<>>)} }
    \cup
    { [location |-> S(Berlin), number_of_bedrooms |-> PyIntV(3),
       number_of_bathrooms |-> PyIntV(2), square_feet |-> PyIntV(1200),
       price |-> pr, amenities |-> PyList(<<>>)] : pr \in AugPrices }

AugIdle ==
    /\ listing = <<>>
    /\ llm = NoCall
    /\ aug_res = [res |-> NoCall, preferences |-> <<>>]
    /\ aug_pc = "idle"

Augment ==
    /\ aug_pc = "ready"
    /\ \E preferences \in AugPreferences :
          aug_res' = [res |-> augment_listing_with_preferences(listing, preferences, llm),
                      preferences |-> preferences]
    /\ aug_pc' = "done"
    /\ UNCHANGED <<listing, llm, nnVars, pnVars, rrVars, srVars>>

(***************************************************************************)
(* Reranker: candidates and preferences                                    *)
(***************************************************************************)
MaxListings == 4

ListingPool ==
    { [location |-> S(Berlin), price |-> PyIntV(90), square_feet |-> PyIntV(50),
       number_of_bedrooms |-> PyIntV(3), number_of_bathrooms |-> PyIntV(2),
       amenities |-> PyList(<<Gym, Pool>>)],
      [location |-> S(Lower(Berlin)), price |-> PyIntV(90), square_feet |-> PyIntV(50),
       number_of_bedrooms |-> PyIntV(3), number_of_bathrooms |-> PyIntV(2),
       amenities |-> PyList(<<Pool, Gym>>)],
      [location |-> S(Munich), price |-> PyIntV(100), square_feet |-> PyIntV(50),
       number_of_bedrooms |-> PyIntV(3), number_of_bathrooms |-> PyIntV(2),
       amenities |-> PyList(<<Pool, Garden>>)],
      [price |-> PyIntV(150), square_feet |-> PyIntV(80),
       number_of_bedrooms |-> PyIntV(4), number_of_bathrooms |-> PyIntV(1),
       amenities |-> PyList(<<Garden, Pool, Garden>>)],
      [location |-> S(Berlin), price |-> S(<<"a", "b", "c">>),
       square_feet |-> PyIntV(200), number_of_bathrooms |-> PyIntV(2),
       amenities |-> S(<<"p", "o", "o", "l", ",", "g">>)] }

RRCities == { PyNone, S(<<"B", "E", "R", "L", "I", "N">>), S(Lower(Munich)) }
RRBudgets ==
    { PyNone, S(<<"1", "0", "0">>), S(<<"-", "1", "0", "0">>), S(<<"0">>),
      S(<<"a", "b", "c">>), S(<<"n", "a", "n">>) }
RROthers ==
    { [square_feet |-> PyNone, features |-> PyNone, amenities |-> PyNone],
      [square_feet |-> S(<<"5", "0">>),
       features |-> S(<<"3", " ", "b", "e", "d", " ", "2", " ", "b", "a", "t", "h">>),
       amenities |-> PyList(<<Pool, Garden>>)],
      [square_feet |-> PyNone, features |-> PyNone,
       amenities |-> PyList(<<Gym, Pool, Pool>>)],
      [square_feet |-> S(<<"5", "0">>), features |-> PyNone, amenities |-> S(Pool)] }

PrefsOf(cities, budgets, others) ==
    { FilterInputs([city |-> c, budget |-> b, square_feet |-> o.square_feet,
                    features |-> o.features, amenities |-> o.amenities]) :
        c \in cities, b \in budgets, o \in others }

\* every preference shape, for the scoring rules
ScorePrefs == PrefsOf(RRCities, RRBudgets, RROthers)

\* fewer preference shapes and longer candidate lists, for the ranking
RankPrefs ==
    PrefsOf(RRCities, {PyNone, S(<<"1", "0", "0">>)},
            {o \in RROthers : o.amenities.t # "str"})

MaxScored == 2

SeqsUpTo(pool, n) == UNION { [1..k -> pool] : k \in 0..n }

RRIdle ==
    /\ listings = <<>>
    /\ user_inputs = <<>>
    /\ scored = <<>>
    /\ ranked = <<>>
    /\ rr_pc = "idle"

\* rerank_listings(raw_results, user_inputs)
Rerank ==
    /\ rr_pc = "ready"
    /\ scored' = Scored(listings, user_inputs)
    /\ ranked' = Ranked(scored')
    /\ rr_pc' = "done"
    /\ UNCHANGED <<listings, user_inputs, nnVars, pnVars, augVars, srVars>>

(***************************************************************************)
(* One search request: search_listings(user_inputs)                        *)
(*   parse_preferences -> get_top_k_similar_listings -> rerank_listings    *)
(*   -> for each (score, doc): augment_listing_with_preferences, st.write  *)
(* One action per statement group; everything from the retrieval on runs   *)
(* inside try / except Exception, which shows "Search failed".             *)
(***************************************************************************)
MaxRetrieved == 4

\* an entry of the page: the widget, the Listing # (0 when none), the input
\* position of the listing shown (0 when none) and the text
Show(widget, n, pos, text) == [w |-> widget, n |-> n, pos |-> pos, text |-> text]

\* an entry of the call log: the callee, the enumerate index and the input
\* position of the listing it was called for (0 when none)
Called(fn, i, pos) == [call |-> fn, i |-> i, pos |-> pos]

\* json.loads on the amenity text, for a text that is a JSON number or is
\* no JSON value at all (the catalogue's raw strings)
JsonLoads(s) ==
    IF s # <<>> /\ AllDigits(s) /\ (Len(s) = 1 \/ s[1] # "0")
    THEN Return(PyIntV(ParseNat(s)))
    ELSE Raise("JSONDecodeError")

\* format(metadata.get('price', 'N/A'), ","): a str (the 'N/A' of an absent
\* key included) refuses the "," format
PriceMarkdown(metadata) ==
    LET price == Get(metadata, "price")
    IN IF price.t \in {"int", "float"} THEN Return(PyNone) ELSE Raise("ValueError")

\* "Handle amenities": a str is decoded, a decode failure makes it a
\* singleton list; a truthy result is joined
AmenitiesMarkdown(metadata) ==
    LET amenities == Get(metadata, "amenities")
        decoded == IF amenities.t = "str" THEN JsonLoads(amenities.s)
                   ELSE Return(amenities)
    IN IF decoded.kind = "return" /\ decoded.val.t = "int" /\ decoded.val.n # 0
       THEN Raise("TypeError")
       ELSE Return(PyNone)

\* the st.markdown calls of one listing, after its description
MetadataMarkdown(metadata) ==
    IF PriceMarkdown(metadata).kind = "raise" THEN PriceMarkdown(metadata)
    ELSE AmenitiesMarkdown(metadata)

\* what the vector store can hold
SearchPool ==
    { [location |-> S(Berlin), price |-> PyIntV(90), square_feet |-> PyIntV(50),
       number_of_bedrooms |-> PyIntV(3), number_of_bathrooms |-> PyIntV(2),
       amenities |-> PyList(<<Gym, Pool>>)],
      [location |-> S(Munich), price |-> PyIntV(100), square_feet |-> PyIntV(50),
       number_of_bedrooms |-> PyIntV(3), number_of_bathrooms |-> PyIntV(2),
       amenities |-> PyList(<<Pool>>)],
      [location |-> S(Munich), price |-> PyIntV(150), square_feet |-> PyIntV(80),
       number_of_bedrooms |-> PyIntV(2), number_of_bathrooms |-> PyIntV(1),
       amenities |-> S(<<"p", "o", "o", "l", ",", "g">>)],
      [location |-> S(Berlin), square_feet |-> PyIntV(80),
       number_of_bedrooms |-> PyIntV(4), number_of_bathrooms |-> PyIntV(1),
       amenities |-> PyList(<<Garden>>)],
      [location |-> S(Berlin), price |-> S(<<"9", "5">>), square_feet |-> PyIntV(60),
       number_of_bedrooms |-> PyIntV(1), number_of_bathrooms |-> PyIntV(1),
       amenities |-> PyList(<<Pool>>)] }

SearchPrefs ==
    { FilterInputs([city |-> S(Berlin), budget |-> S(<<"1", "0", "0">>)]),
      FilterInputs([city |-> S(Munich), budget |-> PyNone]) }

\* what llm.predict can do for one listing
SearchLLM ==
    { Return(S(<<" ", "Refined description.", "\n">>)), Raise("TimeoutError") }

SRIdle ==
    /\ sr_pc = "idle"
    /\ sr_i = 0
    /\ sr_log = <<>>
    /\ screen = <<>>

\* user_pref = self.parse_preferences(user_inputs)
SearchNormalize ==
    /\ sr_pc = "start"
    /\ user_pref' = parse_preferences(user_inputs)
    /\ sr_log' = Append(sr_log, Called("parse_preferences", 0, 0))
    /\ sr_pc' = "parsed"
    /\ UNCHANGED <<raw_inputs, user_inputs_dict, pn_pc, listings, user_inputs,
                   ranked, scored, rr_pc, sr_i, screen, nnVars, augVars>>

\* raw_results = self.get_top_k_similar_listings(user_pref, k=10): the
\* store answers with up to k listings, or the search raises
SearchRetrieve ==
    /\ sr_pc = "parsed"
    /\ sr_log' = Append(sr_log, Called("get_top_k_similar_listings", 0, 0))
    /\ \/ /\ \E docs \in SeqsUpTo(SearchPool, MaxRetrieved) : listings' = docs
          /\ sr_pc' = "retrieved"
          /\ UNCHANGED screen
       \/ /\ screen' = Append(screen, Show("error", 0, 0, <<"Search failed: ">>))
          /\ sr_pc' = "failed"
          /\ UNCHANGED listings
    /\ UNCHANGED <<user_inputs, ranked, scored, rr_pc, sr_i, pnVars, nnVars, augVars>>

\* results = self.rerank_listings(raw_results, user_inputs)
SearchRerank ==
    /\ sr_pc = "retrieved"
    /\ scored' = Scored(listings, user_inputs)
    /\ ranked' = Ranked(scored')
    /\ sr_log' = Append(sr_log, Called("rerank_listings", 0, 0))
    /\ sr_pc' = "reranked"
    /\ UNCHANGED <<listings, user_inputs, rr_pc, sr_i, screen, pnVars, nnVars, augVars>>

\* if results: st.subheader("Top Matching Listings") ... else: st.warning(...)
SearchBranch ==
    /\ sr_pc = "reranked"
    /\ IF ranked # <<>>
       THEN /\ screen' = Append(screen, Show("subheader", 0, 0, <<"Top Matching Listings">>))
            /\ sr_i' = 1
            /\ sr_pc' = "present"
       ELSE /\ screen' = Append(screen, Show("warning", 0, 0,
                                            <<"No listings matched your preferences.">>))
            /\ sr_pc' = "done"
            /\ UNCHANGED sr_i
    /\ UNCHANGED <<sr_log, rrVars, pnVars, nnVars, augVars>>

\* one turn of `for i, (score, doc) in enumerate(results, 1)`: the
\* augmentation, the "Listing #i" and description writes, the metadata
\* markdown; an exception anywhere leaves the loop for the except clause
SearchPresent ==
    /\ sr_pc = "present"
    /\ sr_i \in 1..Len(ranked)
    /\ sr_log' = Append(sr_log, Called("augment_listing_with_preferences",
                                       sr_i, ranked[sr_i].pos))
    /\ \E model \in SearchLLM :
          LET metadata == ranked[sr_i].doc
              augmented_desc == augment_listing_with_preferences(metadata, user_pref, model)
              shown == Append(screen, Show("listing", sr_i, ranked[sr_i].pos,
                                           augmented_desc.val.s))
              failed(page) == Append(page, Show("error", 0, 0, <<"Search failed: ">>))
          IN IF augmented_desc.kind = "raise"
             THEN screen' = failed(screen) /\ sr_pc' = "failed" /\ UNCHANGED sr_i
             ELSE IF MetadataMarkdown(metadata).kind = "raise"
             THEN screen' = failed(shown) /\ sr_pc' = "failed" /\ UNCHANGED sr_i
             ELSE /\ screen' = shown
                  /\ sr_i' = sr_i + 1
                  /\ sr_pc' = IF sr_i = Len(ranked) THEN "done" ELSE "present"
    /\ UNCHANGED <<rrVars, pnVars, nnVars, augVars>>

(***************************************************************************)
(* Specifications, one per component                                       *)
(***************************************************************************)
InitNumeric ==
    /\ nn_val \in NNValues
    /\ nn_default \in NNDefaults
    /\ nn_fn = "none"
    /\ nn_res = NoCall
    /\ PNIdle /\ RRIdle /\ AugIdle /\ SRIdle

NextNumeric == CallSafeInt \/ CallSafeFloat \/ CallFallbackInt

SpecNumeric == InitNumeric /\ [][NextNumeric]_vars

InitNormalize ==
    /\ \E sq \in RawChoices("square_feet"), ci \in RawChoices("city"),
          bu \in RawChoices("budget"), fe \in RawChoices("features"),
          am \in RawChoices("amenities"), ne \in RawChoices("neighborhoods") :
          raw_inputs = [square_feet |-> sq, city |-> ci, budget |-> bu,
                        features |-> fe, amenities |-> am, neighborhoods |-> ne]
    /\ user_inputs_dict = <<>>
    /\ user_pref = <<>>
    /\ pn_pc = "form"
    /\ NNIdle /\ RRIdle /\ AugIdle /\ SRIdle

SpecNormalize == InitNormalize /\ [][Normalize]_vars

InitRerank ==
    /\ listings \in SeqsUpTo(ListingPool, MaxListings)
    /\ user_inputs \in RankPrefs
    /\ scored = <<>>
    /\ ranked = <<>>
    /\ rr_pc = "ready"
    /\ NNIdle /\ PNIdle /\ AugIdle /\ SRIdle

SpecRerank == InitRerank /\ [][Rerank]_vars

InitAugment ==
    /\ listing \in AugListings
    /\ llm \in LLMOutcomes
    /\ aug_res = [res |-> NoCall, preferences |-> <<>>]
    /\ aug_pc = "ready"
    /\ NNIdle /\ PNIdle /\ RRIdle /\ SRIdle

SpecAugment == InitAugment /\ [][Augment]_vars

InitScore ==
    /\ listings \in SeqsUpTo(ListingPool, MaxScored)
    /\ user_inputs \in ScorePrefs
    /\ scored = <<>>
    /\ ranked = <<>>
    /\ rr_pc = "ready"
    /\ NNIdle /\ PNIdle /\ AugIdle /\ SRIdle

SpecScore == InitScore /\ [][Rerank]_vars

\* The end-to-end scenario: budget 450000, city Berlin, square_feet 1200;
\* two Berlin candidates and three Munich ones, in every input order.
ScenarioPrefs ==
    [budget |-> S(<<"4", "5", "0", "0", "0", "0">>), city |-> S(Berlin),
     square_feet |-> S(<<"1", "2", "0", "0">>)]

ScenarioListing(loc, price, sqft) ==
    [location |-> S(loc), price |-> PyIntV(price), square_feet |-> PyIntV(sqft),
     number_of_bedrooms |-> PyIntV(3), number_of_bathrooms |-> PyIntV(2),
     amenities |-> PyList(<<Pool>>)]

BerlinNear == ScenarioListing(Berlin, 440000, 1180)
BerlinFar == ScenarioListing(Berlin, 600000, 2000)
ScenarioListings ==
    { BerlinNear, BerlinFar, ScenarioListing(Munich, 450000, 1200),
      ScenarioListing(Munich, 440000, 1180), ScenarioListing(Munich, 300000, 900) }

InitScenario ==
    /\ listings \in {p \in [1..Cardinality(ScenarioListings) -> ScenarioListings] :
                         Range(p) = ScenarioListings}
    /\ user_inputs = ScenarioPrefs
    /\ scored = <<>>
    /\ ranked = <<>>
    /\ rr_pc = "ready"
    /\ NNIdle /\ PNIdle /\ AugIdle /\ SRIdle

SpecScenario == InitScenario /\ [][Rerank]_vars

\* one request: search_listings called with the form's filtered mapping
InitSearch ==
    /\ user_inputs \in SearchPrefs
    /\ listings = <<>>
    /\ scored = <<>>
    /\ ranked = <<>>
    /\ rr_pc = "idle"
    /\ sr_pc = "start"
    /\ sr_i = 0
    /\ sr_log = <<>>
    /\ screen = <<>>
    /\ NNIdle /\ PNIdle /\ AugIdle

NextSearch ==
    SearchNormalize \/ SearchRetrieve \/ SearchRerank \/ SearchBranch \/ SearchPresent

SpecSearch == InitSearch /\ [][NextSearch]_vars

(***************************************************************************)
(* Properties                                                              *)
(***************************************************************************)
Without(d, k) == [x \in DOMAIN d \ {k} |-> d[x]]
Min(a, b) == IF a < b THEN a ELSE b
RankedPos == {ranked[i].pos : i \in 1..Len(ranked)}

\* ---- Augmentation Service ----------------------------------------------
\* a listing with every structured field present and a list of amenities
WellFormedListing(l) ==
    /\ {"location", "number_of_bedrooms", "price", "amenities"} \subseteq DOMAIN l
    /\ l["price"].t = "int"
    /\ l["amenities"].t = "list"

ContainsFacts(text, l) ==
    /\ IsSubstring(FormatComma(l["price"].n), text)
    /\ IsSubstring(StrOf(l["location"]), text)
    /\ IsSubstring(StrOf(l["number_of_bedrooms"]), text)

\* C1: when the language-model call fails, augment returns a non-empty
\* string that contains the listing's price, location and bedroom count,
\* for a listing with any number of amenities (zero and one included).
C1_FallbackHasFacts ==
    (aug_pc = "done" /\ llm.kind = "raise" /\ WellFormedListing(listing))
    => /\ aug_res.res.kind = "return"
       /\ aug_res.res.val.t = "str"
       /\ aug_res.res.val.s # <<>>
       /\ ContainsFacts(aug_res.res.val.s, listing)

\* C10: augment never propagates an error: whatever the listing record
\* holds (price or amenities absent included) and whatever the model call
\* does, the caller gets a description string back.
C10_AugmentAlwaysReturns ==
    aug_pc = "done"
    => aug_res.res.kind = "return" /\ aug_res.res.val.t = "str"

\* ---- Reranker -----------------------------------------------------------
\* the candidate's location is not the preferred city, read literally: a
\* candidate without a location, or with an empty one, is not from that city
LocationDiffers(metadata, ui) ==
    LET loc == Get(metadata, "location")
    IN loc.t # "str" \/ Lower(loc.s) # Lower(ui["city"].s)

C3_Stable ==
    rr_pc = "done"
    => \A i, j \in 1..Len(ranked) :
          (i < j /\ ranked[i].score = ranked[j].score)
          => ranked[i].pos < ranked[j].pos

\* two returned candidates tie on a non-zero score behind a better one that
\* came later in the input
C3_Witness ==
    /\ rr_pc = "done"
    /\ \E i, j \in 1..Len(ranked) :
          /\ i < j
          /\ ranked[i].score = ranked[j].score
          /\ RLt(RInt(0), ranked[i].score)
          /\ ranked[i].doc # ranked[j].doc
    /\ \E k \in 2..Len(ranked) : ranked[k].pos < ranked[k - 1].pos

Contribution(entry, field) ==
    RSub(entry.score, score_listing(entry.doc, Without(user_inputs, field)))

\* C7: the budget term adds an amount in [0, 3] for every budget and price
\* that parse (zero and negative budgets included), and nothing when either
\* fails to parse.
C7_BudgetTermBounded ==
    rr_pc = "done"
    => \A i \in 1..Len(scored) :
          LET c == Contribution(scored[i], "budget")
          IN /\ RLe(RInt(0), c) /\ RLe(c, RInt(BudgetCap))
             /\ (PyFloat(Get(user_inputs, "budget")).kind # "return"
                 \/ PyFloat(Get(scored[i].doc, "price")).kind # "return")
                => c = RInt(0)

\* the amenities two sequences share, counted one by one
RECURSIVE CommonDistinct(_, _, _)
CommonDistinct(u, c, seen) ==
    IF u = <<>> THEN 0
    ELSE (IF u[1] \notin seen /\ (\E j \in 1..Len(c) : c[j] = u[1]) THEN 1 ELSE 0)
         + CommonDistinct(Tail(u), c, seen \cup {u[1]})

PassesCityFilter(entry) ==
    ~(Truthy(Get(user_inputs, "city")) /\ Truthy(Get(entry.doc, "location"))
      /\ LocationDiffers(entry.doc, user_inputs))

\* C8: for a candidate that passes the city filter, the amenity term adds
\* exactly 0.5 per distinct amenity found in both the user's amenity list
\* and the candidate's amenity list, and 0 when the candidate's amenities
\* are a raw string.
C8_AmenityOverlap ==
    rr_pc = "done"
    => \A i \in 1..Len(scored) :
          (PassesCityFilter(scored[i]) /\ "amenities" \in DOMAIN scored[i].doc)
          => LET mine == Get(user_inputs, "amenities")
                 theirs == scored[i].doc["amenities"]
                 c == Contribution(scored[i], "amenities")
             IN /\ (theirs.t = "list" /\ mine.t = "list")
                   => c[1] * 2 = CommonDistinct(mine.l, theirs.l, {}) * c[2]
                /\ (theirs.t = "list" /\ mine.t = "none") => c = RInt(0)
                /\ theirs.t = "str" => c = RInt(0)

\* [gym, pool] against the user's [pool, garden] adds exactly 0.5, and a
\* raw-string candidate sharing a name with the user's list adds nothing
C8_Witness ==
    /\ rr_pc = "done"
    /\ Get(user_inputs, "amenities") = PyList(<<Pool, Garden>>)
    /\ \E i \in 1..Len(scored) :
          /\ PassesCityFilter(scored[i])
          /\ Get(scored[i].doc, "amenities") = PyList(<<Gym, Pool>>)
          /\ Contribution(scored[i], "amenities") = Half
    /\ \E j \in 1..Len(scored) :
          /\ PassesCityFilter(scored[j])
          /\ Get(scored[j].doc, "amenities").t = "str"
          /\ Contribution(scored[j], "amenities") = RInt(0)

\* C9: in the scenario, whatever the input order, the top 3 is the
\* Berlin/440000/1180 listing, then the other Berlin listing, then exactly
\* one Munich listing with score 0.
C9_Scenario ==
    rr_pc = "done"
    => /\ Len(ranked) = 3
       /\ ranked[1].doc = BerlinNear
       /\ ranked[2].doc = BerlinFar
       /\ RLt(ranked[2].score, ranked[1].score)
       /\ RLt(RInt(0), ranked[2].score)
       /\ ranked[3].doc["location"] = S(Munich)
       /\ ranked[3].score = RInt(0)
       /\ \A i, j \in 1..Len(ranked) :
             (ranked[i].doc["location"] = S(Munich)
              /\ ranked[j].doc["location"] = S(Berlin)) => j < i

\* both Berlin listings come last in the input, behind the three Munich
\* ones, and the ranking has run
C9_Witness ==
    /\ rr_pc = "done"
    /\ listings[4] = BerlinFar
    /\ listings[5] = BerlinNear
    /\ ranked[1].pos = 5
    /\ ranked[3].pos = 1

\* the input positions of the candidates that pass the city filter
PassedPos == {k \in 1..Len(scored) : PassesCityFilter(scored[k])}

\* C13: every candidate the city filter does not zero scores at least 5 (a
\* zeroed one scores 0), so in the rerank output no zeroed candidate
\* precedes one that passed, and a zeroed candidate is returned only when
\* fewer than TopN candidates passed.
C13_PassedOutrankZeroed ==
    rr_pc = "done"
    => /\ \A k \in 1..Len(scored) :
             IF PassesCityFilter(scored[k])
             THEN RLe(RInt(BaseScore), scored[k].score)
             ELSE scored[k].score = RInt(0)
       /\ \A i, j \in 1..Len(ranked) :
             (i < j /\ PassesCityFilter(ranked[j])) => PassesCityFilter(ranked[i])
       /\ (\E i \in 1..Len(ranked) : ~PassesCityFilter(ranked[i]))
          => Cardinality(PassedPos) < TopN

\* more than TopN candidates, the zeroed ones first in the input; one run
\* where enough passed to keep every zeroed one out, and one where a zeroed
\* candidate fills the last place behind the two that passed
C13_Witness ==
    /\ rr_pc = "done"
    /\ Len(listings) > TopN
    /\ ~PassesCityFilter(scored[1])
    /\ \/ /\ Cardinality(PassedPos) = TopN
          /\ \A i \in 1..Len(ranked) : PassesCityFilter(ranked[i])
       \/ /\ Cardinality(PassedPos) = TopN - 1
          /\ ~PassesCityFilter(ranked[TopN])
          /\ PassesCityFilter(ranked[TopN - 1])

\* ---- One search request ---------------------------------------------------
RequestOver == sr_pc \in {"done", "failed"}
Reranked == \E k \in 1..Len(sr_log) : sr_log[k].call = "rerank_listings"
Shown(widget) == SelectSeq(screen, LAMBDA e : e.w = widget)
AugmentCalls == SelectSeq(sr_log, LAMBDA c : c.call = "augment_listing_with_preferences")

\* C11: in one request, whenever the reranked shortlist is empty or every
\* shortlisted item has score 0, the page shows the "no matches" message
\* and presents none of those items as top matching listings.
C11_NoMatchMessage ==
    (RequestOver /\ Reranked
     /\ \A i \in 1..Len(ranked) : ranked[i].score = RInt(0))
    => /\ Shown("warning") # <<>>
       /\ Shown("subheader") = <<>>
       /\ Shown("listing") = <<>>

\* C12: the request calls normalize, retrieve, rerank in that order and
\* then augment once per shortlisted item, in the reranker's output order,
\* and item i of the shortlist is displayed as Listing #i.
C12_RequestOrder ==
    /\ \A k \in 1..Len(sr_log) :
          sr_log[k].call =
             CASE k = 1 -> "parse_preferences"
               [] k = 2 -> "get_top_k_similar_listings"
               [] k = 3 -> "rerank_listings"
               [] OTHER -> "augment_listing_with_preferences"
    /\ (RequestOver /\ Reranked)
       => /\ Len(AugmentCalls) = Len(ranked)
          /\ Len(Shown("listing")) = Len(ranked)
          /\ \A i \in 1..Len(ranked) :
                /\ AugmentCalls[i].i = i
                /\ AugmentCalls[i].pos = ranked[i].pos
                /\ Shown("listing")[i].n = i
                /\ Shown("listing")[i].pos = ranked[i].pos

\* ---- Preference Normalizer ----------------------------------------------
HasSentence(query, f) == \E i \in 1..Len(query) : query[i] = SentenceHead(f)

\* supplied with a non-empty value: not absent, not "", not an empty sequence
Supplied(x) ==
    CASE x.t = "none" -> FALSE
      [] x.t = "str" -> Len(x.s) > 0
      [] x.t = "list" -> Len(x.l) > 0
      [] OTHER -> TRUE

\* C5: a preference field has a sentence in the QueryString if and only if
\* it is a key of UserPreferences, and both hold exactly when the field was
\* supplied with a non-empty value.
C5_NoFieldNoSentenceNoKey ==
    pn_pc = "parsed"
    => \A f \in Fields :
          /\ HasSentence(user_pref, f) <=> f \in DOMAIN user_inputs_dict
          /\ f \in DOMAIN user_inputs_dict <=> Supplied(raw_inputs[f])
          /\ f \in DOMAIN user_inputs_dict => user_inputs_dict[f] = raw_inputs[f]

\* one request with an empty string, an empty list, an absent value and
\* supplied values of both kinds
C5_Witness ==
    /\ pn_pc = "parsed"
    /\ raw_inputs["budget"] = S(<<>>)
    /\ raw_inputs["neighborhoods"] = PyList(<<>>)
    /\ raw_inputs["city"] = PyNone
    /\ raw_inputs["amenities"] = PyList(<<Pool, Gym>>)
    /\ raw_inputs["square_feet"] = S(<<"0">>)
    /\ DOMAIN user_inputs_dict = {"amenities", "square_feet"}
    /\ HasSentence(user_pref, "amenities")
    /\ ~HasSentence(user_pref, "budget")

\* ---- Numeric Normalizer ---------------------------------------------------
\* C6: parseInt and parseFloat never raise: every call returns, and a call
\* that could not convert returns the supplied default.
C6_NeverRaises ==
    nn_fn # "none"
    => /\ nn_res.kind = "return"
       /\ (nn_res.warned /\ nn_default \notin {Omitted, PyNone})
          => nn_res.val = nn_default

====
